---------------------------- MODULE Spec2Model ----------------------------
(***************************************************************************)
(* A model of src/data/scraper.js: the scraper that turns the Teardown API *)
(* page into a version tag and a list of function records.                 *)
(*                                                                         *)
(* Strings are sequences of one-character strings.  An HTML text is a      *)
(* sequence of tokens [k |-> kind, v |-> string]: a markup token per tag   *)
(* the regular expressions of the source look for, and "txt" tokens for    *)
(* the text between them.                                                  *)
(***************************************************************************)
EXTENDS Integers, Sequences, FiniteSets, TLC

VARIABLES
    input,          \* unit runs: the argument handed to the function
    result,         \* unit runs: what the function returned
    called,         \* unit runs: which function has been applied ("" = none)
    pc,             \* where the process started at line 179 stands
    runs,           \* how many times the program has been started
    data,           \* scrapeAPI: the text fetched (line 123)
    idx,            \* scrapeAPI: how many fragments the loop of line 128 has taken
    doc,            \* scrapeAPI: version, categories, functions (lines 124-126)
    versionFile,    \* the file <root>/version
    jsonFile,       \* the file <root>/teardown_api2.json
    githubOutput,   \* what this process appended to the GITHUB_OUTPUT file
    console,        \* the last line written to the console
    error,          \* the exception caught at line 184 ("" = none)
    exitCode        \* -1 while running, then the exit code of the process

unitVars == <<input, result, called>>

fileVars == <<versionFile, jsonFile, githubOutput>>

pipeVars == <<pc, runs, data, idx, doc, versionFile, jsonFile, githubOutput,
              console, error, exitCode>>

vars == <<unitVars, pipeVars>>

NoFile == [exists |-> FALSE, content |-> <<>>]

EmptyDoc == [version |-> <<>>, categories |-> <<>>, functions |-> <<>>]

\* the program has not been started
NotStarted ==
    /\ pc = "idle"
    /\ runs = 0
    /\ data = <<>>
    /\ idx = 0
    /\ doc = EmptyDoc
    /\ versionFile = NoFile
    /\ jsonFile = NoFile
    /\ githubOutput = <<>>
    /\ console = ""
    /\ error = ""
    /\ exitCode = -1

(***************************************************************************)
(* Bounds of the model                                                     *)
(***************************************************************************)
MaxWords == 3

MaxItems == 3

MaxArgs == 2

MaxSegments == 5

MaxFrags == 2

MaxRuns == 2

(***************************************************************************)
(* Strings                                                                 *)
(***************************************************************************)
Whitespace == {" ", "\n", "\t"}

Rep(c, n) == [i \in 1..n |-> c]

RECURSIVE Concat(_)
Concat(ss) == IF ss = <<>> THEN <<>> ELSE Head(ss) \o Concat(Tail(ss))

RECURSIVE JoinWith(_, _)
JoinWith(ss, sep) ==
    IF ss = <<>> THEN <<>>
    ELSE IF Len(ss) = 1 THEN ss[1]
    ELSE ss[1] \o sep \o JoinWith(Tail(ss), sep)

Range(s) == {s[i] : i \in 1..Len(s)}

Min(S) == CHOOSE x \in S : \A y \in S : x <= y

Max(S) == CHOOSE x \in S : \A y \in S : y <= x

\* Op applied to the value of v: a local constant (const x = v; ...), which
\* is computed once
Bind(v, Op(_)) == CHOOSE r \in {Op(x) : x \in {v}} : TRUE

\* the first index at or after i whose character is in (inSet) or is not in
\* (~inSet) the set cs; Len(s) + 1 when there is none
FirstIndex(s, i, cs, inSet) ==
    LET hits == {j \in i..Len(s) : (s[j] \in cs) = inSet}
    IN  IF hits = {} THEN Len(s) + 1 ELSE Min(hits)

\* String.prototype.split(/\s+/): the pieces between maximal whitespace runs
RECURSIVE SplitFrom(_, _, _)
SplitFrom(s, i, acc) ==
    Bind(FirstIndex(s, i, Whitespace, TRUE), LAMBDA e :
        IF e > Len(s) THEN Append(acc, SubSeq(s, i, e - 1))
        ELSE SplitFrom(s, FirstIndex(s, e, Whitespace, FALSE),
                       Append(acc, SubSeq(s, i, e - 1))))

SplitWhitespace(s) == SplitFrom(s, 1, <<>>)

\* String.prototype.split("\n")
RECURSIVE LinesFrom(_, _, _)
LinesFrom(s, i, acc) ==
    Bind(FirstIndex(s, i, {"\n"}, TRUE), LAMBDA e :
        IF e > Len(s) THEN Append(acc, SubSeq(s, i, e - 1))
        ELSE LinesFrom(s, e + 1, Append(acc, SubSeq(s, i, e - 1))))

Lines(s) == LinesFrom(s, 1, <<>>)

(***************************************************************************)
(* formatDescription                                                       *)
(***************************************************************************)
LineWidth == 80

FitsOffByOne(currentLine, word) ==
    Len(currentLine) + Len(word) <= LineWidth

\* the test of line 58
Fits(currentLine, word) ==
    Len(currentLine) + Len(word) + 1 <= LineWidth

\* one iteration of the loop of lines 57-64; st = [cur, out]
FormatWord(st, word) ==
    IF Fits(st.cur, word)
    THEN [cur |-> st.cur \o (IF st.cur # <<>> THEN <<" ">> ELSE <<>>) \o word,
          out |-> st.out]
    ELSE [cur |-> word,
          out |-> st.out \o (IF st.out # <<>> THEN <<"\n">> ELSE <<>>) \o st.cur]

RECURSIVE FormatLoop(_, _, _)
FormatLoop(words, i, st) ==
    IF i > Len(words) THEN st
    ELSE Bind(FormatWord(st, words[i]), LAMBDA nxt : FormatLoop(words, i + 1, nxt))

\* lines 52-71
formatDescription(description) ==
    Bind(SplitWhitespace(description), LAMBDA words :
    Bind(FormatLoop(words, 1, [cur |-> <<>>, out |-> <<>>]), LAMBDA fin :
        IF fin.cur # <<>>
        THEN fin.out \o (IF fin.out # <<>> THEN <<"\n">> ELSE <<>>) \o fin.cur
        ELSE fin.out))

(***************************************************************************)
(* HTML tokens                                                             *)
(***************************************************************************)
Tok(kind) == [k |-> kind, v |-> <<>>]

Txt(str) == [k |-> "txt", v |-> str]

\* the source text a token stands for
Source(tok) ==
    CASE tok.k = "txt"    -> tok.v
      [] tok.k = "nl"     -> <<"\n">>
      [] tok.k = "p"      -> <<"<", "p", ">">>
      [] tok.k = "hr"     -> <<"<", "h", "r", "/", ">">>
      [] tok.k = "h1"     -> <<"<", "h", "1", ">">>
      [] tok.k = "/h1"    -> <<"<", "/", "h", "1", ">">>
      [] tok.k = "h2"     -> <<"<", "h", "2", ">">>
      [] tok.k = "/h2"    -> <<"<", "/", "h", "2", ">">>
      [] tok.k = "h3"     -> <<"<", "h", "3", ">">>
      [] tok.k = "/h3"    -> <<"<", "/", "h", "3", ">">>
      [] tok.k = "a"      -> <<"<", "a", " ", "h", "r", "e", "f", "=", "'", "#">>
                             \o tok.v \o <<"'", ">">>
      [] tok.k = "/a"     -> <<"<", "/", "a", ">">>
      [] tok.k = "table"  -> <<"<", "t", "a", "b", "l", "e", ">">>
      [] tok.k = "/table" -> <<"<", "/", "t", "a", "b", "l", "e", ">">>
      [] tok.k = "tr"     -> <<"<", "t", "r", ">">>
      [] tok.k = "/tr"    -> <<"<", "/", "t", "r", ">">>
      [] tok.k = "td"     -> <<"<", "t", "d", ">">>
      [] tok.k = "/td"    -> <<"<", "/", "t", "d", ">">>
      [] tok.k = "nbsp"   -> <<"&", "n", "b", "s", "p", ";">>
      [] tok.k = "br"     -> <<"<", "b", "r", "/", ">">>
      [] tok.k = "ndash"  -> <<" ", "&", "n", "d", "a", "s", "h", ";", " ">>
      [] tok.k = "pre"    -> <<"<", "p", "r", "e", " ", "c", "l", "a", "s", "s", "=",
                               "'", "e", "x", "a", "m", "p", "l", "e", "'", ">">>
      [] tok.k = "/pre"   -> <<"<", "/", "p", "r", "e", ">">>
      [] tok.k = "argname" -> <<"<", "s", "p", "a", "n", " ", "c", "l", "a", "s", "s",
                                "=", "'", "a", "r", "g", "n", "a", "m", "e", "'", ">">>
                              \o tok.v \o <<"<", "/", "s", "p", "a", "n", ">", " ">>
      [] tok.k = "argtype" -> <<"<", "s", "p", "a", "n", " ", "c", "l", "a", "s", "s",
                                "=", "'", "a", "r", "g", "t", "y", "p", "e", "'", ">", "(">>
                              \o tok.v \o <<")", "<", "/", "s", "p", "a", "n", ">">>

Text(toks) == Concat([i \in 1..Len(toks) |-> Source(toks[i])])

\* String.prototype.trim
Trim(s) ==
    LET keep == {i \in 1..Len(s) : s[i] \notin Whitespace}
    IN  IF keep = {} THEN <<>> ELSE SubSeq(s, Min(keep), Max(keep))

\* The leftmost match, at or after pos, of  open ... close  where the part
\* between is matched lazily ((.*?) when sameLine, which no newline may
\* interrupt, ([\s\S]*?) otherwise): [found, o, c], the places of the opening
\* and of the closing token.
MatchPair(t, pos, openKinds, closeKinds, sameLine) ==
    LET Closers(o) == {c \in (o + 1)..Len(t) :
                          /\ t[c].k \in closeKinds
                          /\ \A m \in (o + 1)..(c - 1) : t[m].k \notin closeKinds
                          /\ sameLine => \A m \in (o + 1)..(c - 1) : t[m].k # "nl"}
        starts == {o \in pos..Len(t) : t[o].k \in openKinds /\ Closers(o) # {}}
    IN  Bind(starts, LAMBDA ss :
            IF ss = {} THEN [found |-> FALSE, o |-> 0, c |-> 0]
            ELSE Bind(Min(ss), LAMBDA o1 :
                     [found |-> TRUE, o |-> o1, c |-> Min(Closers(o1))]))

Between(t, m) == SubSeq(t, m.o + 1, m.c - 1)

(***************************************************************************)
(* extractTables                                                           *)
(***************************************************************************)
\* line 36: a cell is the text of the column with &nbsp; replaced, trimmed
CellText(toks) ==
    Trim(Text([i \in 1..Len(toks) |->
                  IF toks[i].k = "nbsp" THEN Txt(<<" ">>) ELSE toks[i]]))

\* line 36: row.matchAll(/<td[^>]*>(.*?)<\/td>/g)
RECURSIVE CellsFrom(_, _, _)
CellsFrom(row, pos, acc) ==
    Bind(MatchPair(row, pos, {"td"}, {"/td"}, TRUE), LAMBDA m :
        IF ~m.found THEN acc
        ELSE CellsFrom(row, m.c + 1, Append(acc, CellText(Between(row, m)))))

\* line 35: match[1].matchAll(/<tr>(.*?)<\/tr>/g)
RECURSIVE RowsFrom(_, _, _)
RowsFrom(inner, pos, acc) ==
    Bind(MatchPair(inner, pos, {"tr"}, {"/tr"}, TRUE), LAMBDA m :
        IF ~m.found THEN acc
        ELSE Bind(Between(inner, m), LAMBDA row :
                 RowsFrom(inner, m.c + 1, Append(acc, CellsFrom(row, 1, <<>>)))))

\* line 38: table[0][0]; a first row without cells gives undefined, which the
\* template literal of line 39 and the property key of line 41 spell out
TableName(table) ==
    IF table[1] = <<>> THEN <<"u", "n", "d", "e", "f", "i", "n", "e", "d">>
    ELSE table[1][1]

Placeholder(name) == <<"$", "{", "t", "a", "b", "l", "e", ":">> \o name \o <<"}">>

TableDataKeepFirstRow(table) == table

\* line 40: table.splice(0, 1)
TableData(table) == Tail(table)

\* { ...tables, ...tablesPart } and tablesPart[name] = table
Merge(tables, more) ==
    [n \in (DOMAIN tables) \cup (DOMAIN more) |->
        IF n \in DOMAIN more THEN more[n] ELSE tables[n]]

NoTables == [n \in {} |-> <<>>]

Threw == [threw |-> TRUE, textPart |-> <<>>, tablesPart |-> NoTables]

\* lines 31-42, then 44-49: the loop over the matches of
\* /<table[^>]*>([\s\S]*?)<\/?table\/?>/gm
RECURSIVE ExtractFrom(_, _, _, _)
ExtractFrom(t, pos, textResult, tablesPart) ==
    Bind(MatchPair(t, pos, {"table"}, {"table", "/table"}, FALSE), LAMBDA m :
        IF ~m.found
        THEN [threw |-> FALSE,
              textPart |-> Trim(textResult \o Text(SubSeq(t, pos, Len(t)))),
              tablesPart |-> tablesPart]
        ELSE Bind(Between(t, m), LAMBDA inner :
             Bind(RowsFrom(inner, 1, <<>>), LAMBDA table :
                IF table = <<>> THEN Threw   \* table[0] is undefined: TypeError
                ELSE Bind(textResult \o Text(SubSeq(t, pos, m.o - 1))
                                     \o Placeholder(TableName(table)),
                          LAMBDA text2 :
                     Bind(Merge(tablesPart,
                                [n \in {TableName(table)} |-> TableData(table)]),
                          LAMBDA tables2 :
                        ExtractFrom(t, m.c + 1, text2, tables2))))))

\* lines 26-50
extractTables(textInput) ==
    Bind(textInput, LAMBDA t : ExtractFrom(t, 1, <<>>, NoTables))

(***************************************************************************)
(* parseArgs                                                               *)
(***************************************************************************)
OptionalMarker == <<",", " ", "o", "p", "t", "i", "o", "n", "a", "l">>

\* String.prototype.indexOf, counting from 0; -1 when pat does not occur
IndexOf(str, pat) ==
    LET at == {i \in 1..(Len(str) - Len(pat) + 1) :
                  SubSeq(str, i, i + Len(pat) - 1) = pat}
    IN  IF at = {} THEN -1 ELSE Min(at) - 1

ArgTypeUnstripped(type, optional) == type

\* line 16
ArgType(type, optional) ==
    IF optional > -1 THEN SubSeq(type, 1, optional) ELSE type

\* lines 10-18: the record built from one match
Argument(name, type, desc) ==
    Bind(IndexOf(type, OptionalMarker), LAMBDA optional :
        [name |-> name,
         desc |-> desc,
         optional |-> optional > -1,
         type |-> ArgType(type, optional)])

\* the places where argRegex (line 8) matches from: a name span with a
\* non-empty name, a type span with a non-empty parenthesised type, the dash,
\* and a <br/> further on the same line
ArgMatchAt(t, i) ==
    /\ i + 2 <= Len(t)
    /\ t[i].k = "argname" /\ t[i].v # <<>>
    /\ t[i + 1].k = "argtype" /\ t[i + 1].v # <<>>
    /\ LET m == MatchPair(t, i + 2, {"ndash"}, {"br"}, TRUE)
       IN  m.found /\ m.o = i + 2

RECURSIVE ArgsFrom(_, _, _)
ArgsFrom(t, pos, acc) ==
    Bind({i \in pos..Len(t) : ArgMatchAt(t, i)}, LAMBDA starts :
        IF starts = {} THEN acc
        ELSE Bind(Min(starts), LAMBDA i0 :
             Bind(MatchPair(t, i0 + 2, {"ndash"}, {"br"}, TRUE), LAMBDA m :
             Bind(Append(acc, Argument(t[i0].v, t[i0 + 1].v, Text(Between(t, m)))),
                  LAMBDA acc2 :
                ArgsFrom(t, m.c + 1, acc2)))))

\* lines 9-19
parseArgs(paragraph) == Bind(paragraph, LAMBDA t : ArgsFrom(t, 1, <<>>))

(***************************************************************************)
(* matchTag, parseExample, parseFunction, parseCategory                    *)
(***************************************************************************)
CloseOf(tag) ==
    CASE tag = "h2" -> "/h2"
      [] tag = "h3" -> "/h3"
      [] tag = "a"  -> "/a"

\* text.match(`<${tag}([^>]*)>(.*?)</${tag}>`)
matchTag(text, tag) == MatchPair(text, 1, {tag}, {CloseOf(tag)}, TRUE)

\* String.prototype.split on a tag: the pieces between the tokens of a kind
RECURSIVE SplitOnFrom(_, _, _, _)
SplitOnFrom(t, kind, pos, acc) ==
    Bind({i \in pos..Len(t) : t[i].k = kind}, LAMBDA hits :
        IF hits = {} THEN Append(acc, SubSeq(t, pos, Len(t)))
        ELSE Bind(Append(acc, SubSeq(t, pos, Min(hits) - 1)), LAMBDA acc2 :
                 SplitOnFrom(t, kind, Min(hits) + 1, acc2)))

SplitOn(text, kind) == Bind(text, LAMBDA t : SplitOnFrom(t, kind, 1, <<>>))

IsBlank(tok) ==
    \/ tok.k = "nl"
    \/ tok.k = "txt" /\ \A i \in 1..Len(tok.v) : tok.v[i] \in Whitespace

TrimLeft(str) ==
    SubSeq(str, FirstIndex(str, 1, Whitespace, FALSE), Len(str))

TrimRight(str) ==
    LET keep == {i \in 1..Len(str) : str[i] \notin Whitespace}
    IN  IF keep = {} THEN <<>> ELSE SubSeq(str, 1, Max(keep))

\* String.prototype.trim, of a text given by its tokens
TrimTokens(t) ==
    Bind({i \in 1..Len(t) : ~IsBlank(t[i])}, LAMBDA keep :
        IF keep = {} THEN <<>>
        ELSE Bind(SubSeq(t, Min(keep), Max(keep)), LAMBDA core :
                [i \in 1..Len(core) |->
                    IF core[i].k # "txt" THEN core[i]
                    ELSE Txt(IF i = 1 /\ i = Len(core) THEN Trim(core[i].v)
                             ELSE IF i = 1 THEN TrimLeft(core[i].v)
                             ELSE IF i = Len(core) THEN TrimRight(core[i].v)
                             ELSE core[i].v)]))

Null == [isNull |-> TRUE, str |-> <<>>]

\* lines 21-24
parseExample(paragraph) ==
    Bind(MatchPair(paragraph, 1, {"pre"}, {"/pre"}, FALSE), LAMBDA m :
        IF ~m.found THEN Null
        ELSE [isNull |-> FALSE, str |-> Trim(Text(Between(paragraph, m)))])

Undefined == [tag |-> "undefined"]

TypeError == [tag |-> "throw"]

NoHeaderIgnored(text, tag) == TRUE

\* lines 76 and 96: a fragment without the header is not parsed
HasHeader(text, tag) == matchTag(text, tag).found

\* lines 78-81
RawDescription(paragraphs) ==
    TrimTokens(paragraphs[4])
    \o (IF Len(paragraphs) > 5
        THEN <<Tok("nl"), Tok("nl")>> \o TrimTokens(paragraphs[5])
        ELSE <<>>)

\* lines 74-92
parseFunction(text) ==
    IF ~HasHeader(text, "h3") THEN Undefined
    ELSE Bind(SplitOn(text, "p"), LAMBDA paragraphs :
        IF Len(paragraphs) < 4 THEN TypeError   \* paragraphs[3] is undefined
        ELSE Bind(extractTables(RawDescription(paragraphs)), LAMBDA ext :
            IF ext.threw THEN TypeError
            ELSE [tag |-> "function",
                  name |-> Text(Between(text, matchTag(text, "h3"))),
                  arguments |-> parseArgs(paragraphs[2]),
                  returns |-> parseArgs(paragraphs[3]),
                  examples |-> <<parseExample(paragraphs[Len(paragraphs)])>>,
                  description |-> formatDescription(ext.textPart),
                  tables |-> ext.tablesPart]))

\* line 103: part.matchAll(/<a href='#([^']*)'/g)
HrefTargets(part) ==
    LET links == SelectSeq(part, LAMBDA tok : tok.k = "a")
    IN  [i \in 1..Len(links) |-> links[i].v]

\* one iteration of the loop of lines 100-113; st = [threw, tables,
\* description, entries]
CategoryPart(st, part) ==
    IF st.threw THEN st
    ELSE IF matchTag(part, "a").found
    THEN [st EXCEPT !.entries = st.entries \o HrefTargets(part)]
    ELSE Bind(extractTables(part), LAMBDA ext :
        IF ext.threw THEN [st EXCEPT !.threw = TRUE]
        ELSE [st EXCEPT !.tables = Merge(st.tables, ext.tablesPart),
                        !.description =
                            IF ext.textPart # <<>>
                            THEN Append(st.description, ext.textPart)
                            ELSE st.description])

RECURSIVE CategoryLoop(_, _, _)
CategoryLoop(parts, i, st) ==
    IF i > Len(parts) THEN st
    ELSE Bind(CategoryPart(st, parts[i]), LAMBDA nxt :
             CategoryLoop(parts, i + 1, nxt))

\* lines 94-120
parseCategory(text) ==
    IF ~HasHeader(text, "h2") THEN Undefined
    ELSE Bind(Tail(SplitOn(text, "p")), LAMBDA parts :
         Bind(CategoryLoop(parts, 1,
                  [threw |-> FALSE, tables |-> NoTables,
                   description |-> <<>>, entries |-> <<>>]), LAMBDA fin :
            IF fin.threw THEN TypeError
            ELSE [tag |-> "category",
                  name |-> Text(Between(text, matchTag(text, "h2"))),
                  description |-> JoinWith(fin.description, <<"\n", "\n">>),
                  tables |-> fin.tables,
                  entries |-> fin.entries]))

(***************************************************************************)
(* Unit run of formatDescription                                           *)
(***************************************************************************)
WordLengths == {1, 39, 40, 41, 80, 81}

WordSeqs == UNION {[1..n -> WordLengths] : n \in 0..MaxWords}

Separators == {<<" ">>, <<" ", "\n", " ">>}

DescriptionOf(lens, sep) ==
    JoinWith([i \in 1..Len(lens) |-> Rep("a", lens[i])], sep)

FormatInputs ==
    {DescriptionOf(lens, sep) : lens \in WordSeqs, sep \in Separators}
    \cup {<<" ">> \o DescriptionOf(lens, <<" ">>) \o <<" ">> : lens \in WordSeqs}

InitFormat ==
    /\ input \in FormatInputs
    /\ result = <<>>
    /\ called = ""
    /\ NotStarted

CallFormat ==
    /\ called = ""
    /\ result' = formatDescription(input)
    /\ called' = "formatDescription"
    /\ UNCHANGED <<input, pipeVars>>

NextFormat == CallFormat

SpecFormat == InitFormat /\ [][NextFormat]_vars

\* C5: no line of formatDescription's output is longer than 80 characters
\* unless it is a single whitespace-delimited token of the input that is
\* itself longer than 80 characters, and every such token is a line of the
\* output, unmodified.
C5_LineWidth ==
    called = "formatDescription" =>
        LET ls   == Range(Lines(result))
            toks == Range(SplitWhitespace(input))
        IN  /\ \A l \in ls : Len(l) > LineWidth => l \in toks
            /\ \A t \in toks : Len(t) > LineWidth => t \in ls

C5_Witness ==
    /\ called = "formatDescription"
    /\ \E l \in Range(Lines(result)) : Len(l) > LineWidth
    /\ \E l \in Range(Lines(result)) : Len(l) = LineWidth /\ " " \in Range(l)

(***************************************************************************)
(* Unit run of extractTables                                               *)
(***************************************************************************)
\* a text block is a sequence of items: a piece of prose, or the markup of a
\* table given by its rows of cells
Prose(str) == [isTable |-> FALSE, rows |-> <<>>, text |-> str]

TableOf(rows) == [isTable |-> TRUE, rows |-> rows, text |-> <<>>]

CellMarkup(cell) == <<Tok("td"), Txt(<<" ">> \o cell), Tok("nbsp"), Tok("/td")>>

RowMarkup(row) ==
    <<Tok("tr")>> \o Concat([i \in 1..Len(row) |-> CellMarkup(row[i])])
                  \o <<Tok("/tr")>>

TableMarkup(rows) ==
    <<Tok("table")>> \o Concat([i \in 1..Len(rows) |-> RowMarkup(rows[i])])
                     \o <<Tok("/table")>>

ItemMarkup(item) ==
    IF item.isTable THEN TableMarkup(item.rows) ELSE <<Txt(item.text)>>

BlockMarkup(items) == Concat([i \in 1..Len(items) |-> ItemMarkup(items[i])])

TableItems ==
    { TableOf(<< <<<<"A">>>>, <<<<"x">>, <<"y">>>> >>),
      TableOf(<< <<<<"B">>, <<"c">>>> >>),
      TableOf(<< <<<<"A">>>>, <<<<"z">>>> >>),
      TableOf(<<>>) }

BlockItems == TableItems \cup {Prose(<<" ", "f", "o", "o", " ">>)}

Blocks == UNION {[1..n -> BlockItems] : n \in 0..MaxItems}

\* a well-formed table has a first row, and a name in that row's first cell
WellFormed(items) ==
    \A i \in 1..Len(items) :
        items[i].isTable => items[i].rows # <<>> /\ items[i].rows[1] # <<>>

InitTables ==
    /\ input \in Blocks
    /\ result = Threw
    /\ called = ""
    /\ NotStarted

CallTables ==
    /\ called = ""
    /\ result' = extractTables(BlockMarkup(input))
    /\ called' = "extractTables"
    /\ UNCHANGED <<input, pipeVars>>

NextTables == CallTables

SpecTables == InitTables /\ [][NextTables]_vars

\* the tables of a block, in input order
TablesIn(items) == SelectSeq(items, LAMBDA it : it.isTable)

\* the names between "${table:" and "}" in a text, in order
RECURSIVE PlaceholdersFrom(_, _, _)
PlaceholdersFrom(s, pos, acc) ==
    LET at == {i \in pos..(Len(s) - 8) :
                  SubSeq(s, i, i + 7) = <<"$", "{", "t", "a", "b", "l", "e", ":">>}
        i0 == Min(at)
        e  == FirstIndex(s, i0 + 8, {"}"}, TRUE)
    IN  IF at = {} THEN acc
        ELSE PlaceholdersFrom(s, e + 1, Append(acc, SubSeq(s, i0 + 8, e - 1)))

PlaceholderNames(s) == PlaceholdersFrom(s, 1, <<>>)

PlaceholdersInOrder ==
    LET ts == TablesIn(input)
    IN  /\ ~result.threw
        /\ PlaceholderNames(result.textPart) = [i \in 1..Len(ts) |-> ts[i].rows[1][1]]
        /\ result.textPart =
             Trim(Concat([i \in 1..Len(input) |->
                     IF input[i].isTable THEN Placeholder(input[i].rows[1][1])
                     ELSE input[i].text]))
        /\ DOMAIN result.tablesPart = {ts[i].rows[1][1] : i \in 1..Len(ts)}

\* C6 as stated: the k well-formed tables of a block are all extracted in
\* document order, the Nth placeholder names the Nth table, and the mapping
\* associates that name with the Nth table's rows without its first row.
C6_NthTableRows ==
    (called = "extractTables" /\ WellFormed(input)) =>
        /\ PlaceholdersInOrder
        /\ \A i \in 1..Len(TablesIn(input)) :
              result.tablesPart[TablesIn(input)[i].rows[1][1]]
                  = Tail(TablesIn(input)[i].rows)

\* C6 amended: as above, but the mapping associates each name with the rows
\* (without the first row) of the last table of that name in the block.
C6_LastTableOfNameRows ==
    (called = "extractTables" /\ WellFormed(input)) =>
        /\ PlaceholdersInOrder
        /\ \A i \in 1..Len(TablesIn(input)) :
              LET ts   == TablesIn(input)
                  same == {j \in 1..Len(ts) : ts[j].rows[1][1] = ts[i].rows[1][1]}
              IN  result.tablesPart[ts[i].rows[1][1]] = Tail(ts[Max(same)].rows)

C6_Witness ==
    /\ called = "extractTables"
    /\ WellFormed(input)
    /\ Len(TablesIn(input)) = 3
    /\ Cardinality(DOMAIN result.tablesPart) = 2
    /\ \E n \in DOMAIN result.tablesPart : result.tablesPart[n] # <<>>

(***************************************************************************)
(* Unit run of parseArgs                                                   *)
(***************************************************************************)
\* a paragraph is a sequence of entries, one per line; an entry without its
\* closing <br/> is not matched by argRegex
Entry(name, type, desc, closed) ==
    [name |-> name, type |-> type, desc |-> desc, closed |-> closed]

EntryMarkup(e) ==
    <<[k |-> "argname", v |-> e.name], [k |-> "argtype", v |-> e.type],
      Tok("ndash"), Txt(e.desc)>>
    \o (IF e.closed THEN <<Tok("br")>> ELSE <<>>) \o <<Tok("nl")>>

ParagraphMarkup(es) == Concat([i \in 1..Len(es) |-> EntryMarkup(es[i])])

Number == <<"n", "u", "m", "b", "e", "r">>

ArgTypes ==
    { Number,
      Number \o OptionalMarker,
      OptionalMarker,
      Number \o <<",", " ", "o", "p", "t">>,
      Number \o OptionalMarker \o <<"=", "1">> \o OptionalMarker,
      <<",", " ">> \o Number \o OptionalMarker }

Entries ==
    {Entry(<<"x">>, ty, <<"t", "h", "e", " ", "x">>, cl) :
        ty \in ArgTypes, cl \in BOOLEAN}

Paragraphs == UNION {[1..n -> Entries] : n \in 0..MaxArgs}

InitArgs ==
    /\ input \in Paragraphs
    /\ result = <<>>
    /\ called = ""
    /\ NotStarted

CallArgs ==
    /\ called = ""
    /\ result' = parseArgs(ParagraphMarkup(input))
    /\ called' = "parseArgs"
    /\ UNCHANGED <<input, pipeVars>>

NextArgs == CallArgs

SpecArgs == InitArgs /\ [][NextArgs]_vars

\* str = before \o pat \o after, with no occurrence of pat starting earlier
FirstSplitAt(str, pat, before) ==
    /\ Len(before) + Len(pat) <= Len(str)
    /\ SubSeq(str, 1, Len(before)) = before
    /\ SubSeq(str, Len(before) + 1, Len(before) + Len(pat)) = pat
    /\ \A i \in 1..Len(before) : Len(before) > 0 => SubSeq(str, i, i + Len(pat) - 1) # pat

Contains(str, pat) ==
    \E i \in 1..(Len(str) - Len(pat) + 1) : SubSeq(str, i, i + Len(pat) - 1) = pat

\* C8: parseArgs returns one Argument per matched entry, in document order
\* (none for no entry); optional is true iff the type text contains
\* ', optional', type is then the text before the first occurrence of the
\* marker and otherwise the type text unchanged; name and desc are copied.
C8_ParseArgs ==
    called = "parseArgs" =>
        LET es == SelectSeq(input, LAMBDA e : e.closed)
        IN  /\ Len(result) = Len(es)
            /\ \A i \in 1..Len(es) :
                  /\ result[i].name = es[i].name
                  /\ result[i].desc = es[i].desc
                  /\ result[i].optional = Contains(es[i].type, OptionalMarker)
                  /\ IF result[i].optional
                     THEN FirstSplitAt(es[i].type, OptionalMarker, result[i].type)
                     ELSE result[i].type = es[i].type

C8_Witness ==
    /\ called = "parseArgs"
    /\ Len(result) = 2
    /\ result[1].optional /\ result[1].type = Number
    /\ ~result[2].optional /\ result[2].type # Number

(***************************************************************************)
(* Unit run of the two record parsers on one fragment                      *)
(***************************************************************************)
HeaderMarkup(tag, name) == <<Tok(tag), Txt(name), Tok(CloseOf(tag)), Tok("nl")>>

ArgsSegment ==
    EntryMarkup(Entry(<<"x">>, Number \o OptionalMarker, <<"t", "h", "e", " ", "x">>, TRUE))

TextSegment ==
    <<Txt(<<"S", "e", "e", " ">>)>>
    \o TableMarkup(<< <<<<"A">>>>, <<<<"x">>, <<"y">>>> >>)
    \o <<Tok("nl")>>

LinksSegment ==
    <<[k |-> "a", v |-> <<"b">>], Txt(<<"b">>), Tok("/a"),
      [k |-> "a", v |-> <<"a">>], Txt(<<"a">>), Tok("/a"), Tok("nl")>>

\* a table markup without rows
RowlessSegment == <<Tok("table"), Tok("/table"), Tok("nl")>>

Segments == {ArgsSegment, TextSegment, LinksSegment, RowlessSegment}

Headers == {"none", "h2", "h3", "both"}

FragmentMarkup(header, segs) ==
    (IF header \in {"h2", "both"} THEN HeaderMarkup("h2", <<"C">>) ELSE <<>>)
    \o (IF header \in {"h3", "both"} THEN HeaderMarkup("h3", <<"f">>) ELSE <<>>)
    \o Concat([i \in 1..Len(segs) |-> <<Tok("p")>> \o segs[i]])

UnitFragments ==
    {[header |-> h, segs |-> ss] :
        h \in Headers, ss \in UNION {[1..n -> Segments] : n \in 0..MaxSegments}}

InitParsers ==
    /\ input \in UnitFragments
    /\ result = [category |-> Undefined, function |-> Undefined]
    /\ called = ""
    /\ NotStarted

CallParsers ==
    /\ called = ""
    /\ result' = [category |-> parseCategory(FragmentMarkup(input.header, input.segs)),
                  function |-> parseFunction(FragmentMarkup(input.header, input.segs))]
    /\ called' = "parsers"
    /\ UNCHANGED <<input, pipeVars>>

NextParsers == CallParsers

SpecParsers == InitParsers /\ [][NextParsers]_vars

HeaderlessRejected ==
    /\ input.header \notin {"h3", "both"} => result.function.tag = "undefined"
    /\ input.header \notin {"h2", "both"} => result.category.tag = "undefined"

PrintableAscii ==
    <<" ", "!", "(quote)", "#", "$", "%", "&", "'", "(", ")", "*", "+", ",", "-", ".",
      "/", "0", "1", "2", "3", "4", "5", "6", "7", "8", "9", ":", ";", "<", "=",
      ">", "?", "@", "A", "B", "C", "D", "E", "F", "G", "H", "I", "J", "K", "L",
      "M", "N", "O", "P", "Q", "R", "S", "T", "U", "V", "W", "X", "Y", "Z", "[",
      "(backslash)", "]", "^", "_", "(backtick)", "a", "b", "c", "d", "e", "f", "g", "h", "i", "j",
      "k", "l", "m", "n", "o", "p", "q", "r", "s", "t", "u", "v", "w", "x", "y",
      "z", "{", "|", "}", "~">>

\* the UTF-16 code unit of a character (the table stands for the codes 32 to
\* 126; the quote, the backslash and the backtick are spelt out and occur in no text here)
CodeUnit(c) == 31 + CHOOSE n \in 1..Len(PrintableAscii) : PrintableAscii[n] = c

\* the order Array.prototype.sort uses without a comparator: strings compared
\* code unit by code unit, a proper prefix first
LexLess(a, b) ==
    \E n \in 0..Len(a) :
        /\ n <= Len(b)
        /\ SubSeq(a, 1, n) = SubSeq(b, 1, n)
        /\ IF n = Len(a) THEN n < Len(b)
           ELSE n < Len(b) /\ CodeUnit(a[n + 1]) < CodeUnit(b[n + 1])

\* x put after the last element of the sorted sequence that is not larger
InsertSorted(sorted, x) ==
    LET before == {i \in 1..Len(sorted) : ~LexLess(x, sorted[i])}
        n == IF before = {} THEN 0 ELSE Max(before)
    IN  SubSeq(sorted, 1, n) \o <<x>> \o SubSeq(sorted, n + 1, Len(sorted))

RECURSIVE SortFrom(_, _, _)
SortFrom(seq, i, sorted) ==
    IF i > Len(seq) THEN sorted
    ELSE Bind(InsertSorted(sorted, seq[i]), LAMBDA nxt : SortFrom(seq, i + 1, nxt))

Unsorted(entries) == entries

\* line 131: category.entries.sort()
Sort(entries) == SortFrom(entries, 1, <<>>)

VersionChars == {"0", "1", "2", "3", "4", "5", "6", "7", "8", "9", "."}

\* the text matched by  \(([\d\.]+)\)  at the end of str: [found, version]
ParenVersion(str) ==
    LET n == Len(str)
        stops == {i \in 1..(n - 1) : str[i] \notin VersionChars}
        open == IF stops = {} THEN 0 ELSE Max(stops)
    IN  IF n >= 3 /\ str[n] = ")" /\ open > 0 /\ open < n - 1 /\ str[open] = "("
        THEN [found |-> TRUE, version |-> SubSeq(str, open + 1, n - 1)]
        ELSE [found |-> FALSE, version |-> <<>>]

VersionMatchOrEmpty(text) == [found |-> TRUE, version |-> <<>>]

\* line 124: data.match(/<h1>.*?\(([\d\.]+)\)<\/h1>/): the leftmost <h1> that
\* has, further on its line, a parenthesised version right before a </h1>
VersionMatch(text) ==
    LET Ends(o) == {c \in (o + 2)..Len(text) :
                       /\ text[c].k = "/h1"
                       /\ text[c - 1].k = "txt"
                       /\ ParenVersion(text[c - 1].v).found
                       /\ \A m \in (o + 1)..(c - 1) : text[m].k # "nl"}
    IN  Bind({o \in 1..Len(text) : text[o].k = "h1" /\ Ends(o) # {}}, LAMBDA starts :
            IF starts = {} THEN [found |-> FALSE, version |-> <<>>]
            ELSE ParenVersion(text[Min(Ends(Min(starts))) - 1].v))

FragmentThrew == [threw |-> TRUE, categories |-> <<>>, functions |-> <<>>]

ClassifyWithoutContinue(part) ==
    Bind(parseCategory(part), LAMBDA category :
    Bind(parseFunction(part), LAMBDA func :
        IF category.tag = "throw" \/ func.tag = "throw" THEN FragmentThrew
        ELSE [threw |-> FALSE,
              categories |-> IF category.tag = "category"
                             THEN <<[category EXCEPT !.entries = Sort(@)]>>
                             ELSE <<>>,
              functions |-> IF func.tag = "function" THEN <<func>> ELSE <<>>]))

\* lines 129-138: what one fragment adds to categories and to functions
Classify(part) ==
    Bind(parseCategory(part), LAMBDA category :
        IF category.tag = "throw" THEN FragmentThrew
        ELSE IF category.tag = "category"
        THEN [threw |-> FALSE,
              categories |-> <<[category EXCEPT !.entries = Sort(@)]>>,
              functions |-> <<>>]
        ELSE Bind(parseFunction(part), LAMBDA func :
            IF func.tag = "throw" THEN FragmentThrew
            ELSE [threw |-> FALSE,
                  categories |-> <<>>,
                  functions |-> IF func.tag = "function" THEN <<func>> ELSE <<>>]))

(***************************************************************************)
(* outputData                                                              *)
(***************************************************************************)
NeverUpToDate(stored, document) == FALSE

\* line 152
UpToDate(stored, document) == stored = document.version

\* lines 163-166, as line 168 serialises it
CombinedData(document) ==
    [version |-> document.version, functions |-> document.functions]

\* line 157
OutputLine(document) ==
    <<"v", "e", "r", "s", "i", "o", "n", "=">> \o document.version

(***************************************************************************)
(* The documents the page may hold                                         *)
(***************************************************************************)
Version1 == <<"1", ".", "2", ".", "3">>

Version2 == <<"1", ".", "2", ".", "4">>

Title == <<"T", "e", "a", "r", "d", "o", "w", "n", " ", "A", "P", "I">>

TitleMarkup(version) ==
    <<Tok("h1"), Txt(Title \o <<" ", "(">> \o version \o <<")">>), Tok("/h1"),
      Tok("nl")>>

UnversionedTitle == <<Tok("h1"), Txt(Title), Tok("/h1"), Tok("nl")>>

Titles == {TitleMarkup(Version1), TitleMarkup(Version2), UnversionedTitle}

NamedFragment(tag, name, segs) ==
    HeaderMarkup(tag, name) \o Concat([i \in 1..Len(segs) |-> <<Tok("p")>> \o segs[i]])

ExampleSegment ==
    <<Tok("pre"), Txt(<<"p", "r", "i", "n", "t", "(", "1", ")">>), Tok("/pre"),
      Tok("nl")>>

MoreSegment == <<Txt(<<"M", "o", "r", "e", ".">>), Tok("nl")>>

DuplicateLinksSegment ==
    <<[k |-> "a", v |-> <<"a">>], Txt(<<"a">>), Tok("/a"),
      [k |-> "a", v |-> <<"a">>], Txt(<<"a">>), Tok("/a"), Tok("nl")>>

CategoryFragment ==
    NamedFragment("h2", <<"C", "a", "t">>, <<TextSegment, LinksSegment>>)

DuplicateFragment ==
    NamedFragment("h2", <<"D", "u", "p">>, <<DuplicateLinksSegment>>)

FunctionA ==
    NamedFragment("h3", <<"a">>,
        <<ArgsSegment, ArgsSegment, TextSegment, ExampleSegment>>)

FunctionB ==
    NamedFragment("h3", <<"b">>,
        <<ArgsSegment, <<>>, MoreSegment, MoreSegment, ExampleSegment>>)

\* an h3 header and fewer than four segments
ShortFragment == NamedFragment("h3", <<"c">>, <<ArgsSegment>>)

\* an h2 and an h3 header
MixedFragment ==
    HeaderMarkup("h2", <<"M", "i", "x">>)
    \o NamedFragment("h3", <<"m">>,
           <<ArgsSegment, ArgsSegment, MoreSegment, ExampleSegment>>)

Fragments ==
    {CategoryFragment, DuplicateFragment, FunctionA, FunctionB, ShortFragment,
     MixedFragment}

DocumentOf(title, frags) ==
    title \o Concat([i \in 1..Len(frags) |-> <<Tok("hr")>> \o frags[i]])

\* the sections of a page are distinct
Sections ==
    UNION {{frags \in [1..n -> Fragments] :
               \A i, j \in 1..n : i # j => frags[i] # frags[j]} : n \in 0..MaxFrags}

Documents == {DocumentOf(title, frags) : title \in Titles, frags \in Sections}

(***************************************************************************)
(* The program: lines 179-187, scrapeAPI and outputData step by step       *)
(***************************************************************************)
Init ==
    /\ input = <<>>
    /\ result = <<>>
    /\ called = ""
    /\ NotStarted

\* line 184-186: the exception is caught and reported; the process then ends
Report(err) ==
    /\ pc' = "done"
    /\ error' = err
    /\ console' = "Error while scraping"
    /\ exitCode' = 0

\* the program is started, and line 123 has the page
Fetch ==
    /\ pc \in {"idle", "done"}
    /\ runs < MaxRuns
    /\ runs' = runs + 1
    /\ pc' = "fetched"
    /\ data' \in Documents
    /\ idx' = 0
    /\ doc' = EmptyDoc
    /\ githubOutput' = <<>>
    /\ console' = ""
    /\ error' = ""
    /\ exitCode' = -1
    /\ UNCHANGED <<unitVars, versionFile, jsonFile>>

\* the program is started, and fetch rejects
FetchFails ==
    /\ pc \in {"idle", "done"}
    /\ runs < MaxRuns
    /\ runs' = runs + 1
    /\ Report("fetch")
    /\ data' = <<>>
    /\ idx' = 0
    /\ doc' = EmptyDoc
    /\ githubOutput' = <<>>
    /\ UNCHANGED <<unitVars, versionFile, jsonFile>>

\* lines 124-126
ExtractVersion ==
    /\ pc = "fetched"
    /\ IF VersionMatch(data).found
       THEN /\ pc' = "loop"
            /\ doc' = [EmptyDoc EXCEPT !.version = VersionMatch(data).version]
            /\ UNCHANGED <<data, console, error, exitCode>>
       ELSE /\ Report("version")   \* null[1]: TypeError
            /\ data' = <<>>
            /\ UNCHANGED doc
    /\ UNCHANGED <<unitVars, runs, idx, fileVars>>

\* one iteration of the loop of lines 128-139
ParseFragment ==
    /\ pc = "loop"
    /\ idx < Len(SplitOn(data, "hr"))
    /\ \E found \in {Classify(SplitOn(data, "hr")[idx + 1])} :
           IF found.threw
           THEN /\ Report("parse")
                /\ data' = <<>>
                /\ idx' = 0
                /\ doc' = EmptyDoc
           ELSE /\ idx' = idx + 1
                /\ doc' = [doc EXCEPT !.categories = @ \o found.categories,
                                      !.functions = @ \o found.functions]
                /\ UNCHANGED <<pc, data, console, error, exitCode>>
    /\ UNCHANGED <<unitVars, runs, fileVars>>

\* lines 141-145 and 182: the document is returned and handed to outputData
ReturnDocument ==
    /\ pc = "loop"
    /\ idx = Len(SplitOn(data, "hr"))
    /\ pc' = "read"
    /\ data' = <<>>
    /\ idx' = 0
    /\ UNCHANGED <<unitVars, runs, doc, fileVars, console, error, exitCode>>

\* lines 152-156, once line 149 has set localVersion; the environment either
\* sets GITHUB_OUTPUT (line 157 is next) or does not (line 160 is next)
Compare(localVersion) ==
    /\ IF UpToDate(localVersion, doc)
       THEN /\ pc' = "done"
            /\ console' = "Up to date"
            /\ exitCode' = 1     \* process.exit(1)
            /\ doc' = EmptyDoc
       ELSE /\ pc' \in {"append", "writeVersion"}
            /\ UNCHANGED <<console, exitCode, doc>>
    /\ UNCHANGED <<unitVars, runs, data, idx, fileVars, error>>

\* lines 149-155: the version file is read
ReadVersion ==
    /\ pc = "read"
    /\ versionFile.exists
    /\ Compare(versionFile.content)

\* lines 149-155: there is no version file; .catch turns the rejection into ""
ReadVersionMissing ==
    /\ pc = "read"
    /\ ~versionFile.exists
    /\ Compare(<<>>)

\* line 157
AppendOutput ==
    /\ pc = "append"
    /\ pc' = "writeVersion"
    /\ githubOutput' = Append(githubOutput, OutputLine(doc))
    /\ UNCHANGED <<unitVars, runs, data, idx, doc, versionFile, jsonFile,
                   console, error, exitCode>>

\* line 160; data.version is never empty (line 124), so data.name is not used
WriteVersion ==
    /\ pc = "writeVersion"
    /\ pc' = "writeJson"
    /\ versionFile' = [exists |-> TRUE, content |-> doc.version]
    /\ UNCHANGED <<unitVars, runs, data, idx, doc, jsonFile, githubOutput,
                   console, error, exitCode>>

\* lines 167-168 and 183
WriteJson ==
    /\ pc = "writeJson"
    /\ pc' = "done"
    /\ jsonFile' = [exists |-> TRUE, content |-> CombinedData(doc)]
    /\ console' = "Scraping completed successfully."
    /\ exitCode' = 0
    /\ doc' = EmptyDoc
    /\ UNCHANGED <<unitVars, runs, data, idx, versionFile, githubOutput, error>>

\* appendFile or writeFile rejects (the file cannot be opened): the file is
\* left as it was and the exception reaches line 184
WriteFails ==
    /\ pc \in {"append", "writeVersion", "writeJson"}
    /\ Report(pc)
    /\ doc' = EmptyDoc
    /\ UNCHANGED <<unitVars, runs, data, idx, fileVars>>

Next ==
    \/ Fetch
    \/ FetchFails
    \/ ExtractVersion
    \/ ParseFragment
    \/ ReturnDocument
    \/ ReadVersion
    \/ ReadVersionMissing
    \/ AppendOutput
    \/ WriteVersion
    \/ WriteJson
    \/ WriteFails

Spec == Init /\ [][Next]_vars

(***************************************************************************)
(* Claims about the program                                                *)
(***************************************************************************)
CategoryFragments == {CategoryFragment, DuplicateFragment, MixedFragment}

FunctionFragments == {FunctionA, FunctionB}

\* the name in the header a fragment is recorded under
HeaderName(frag) ==
    CASE frag = CategoryFragment  -> <<"C", "a", "t">>
      [] frag = DuplicateFragment -> <<"D", "u", "p">>
      [] frag = MixedFragment     -> <<"M", "i", "x">>
      [] frag = FunctionA         -> <<"a">>
      [] frag = FunctionB         -> <<"b">>

NamesOf(records) == [i \in 1..Len(records) |-> records[i].name]

HeaderNames(frags) == [i \in 1..Len(frags) |-> HeaderName(frags[i])]

\* C3: the loop takes the fragments in split order and each adds at most one
\* record: the categories are the fragments with a category header taken so
\* far, in document order (a fragment that also has a function header adds no
\* function), the functions are the other fragments with a function header, in
\* document order, and there are never more records than fragments taken.
C3_RecordsInDocumentOrder ==
    pc = "loop" =>
        LET taken == SubSeq(SplitOn(data, "hr"), 1, idx)
        IN  /\ NamesOf(doc.categories)
                 = HeaderNames(SelectSeq(taken, LAMBDA f : f \in CategoryFragments))
            /\ NamesOf(doc.functions)
                 = HeaderNames(SelectSeq(taken, LAMBDA f : f \in FunctionFragments))
            /\ Len(doc.categories) + Len(doc.functions) <= idx

C3_Witness ==
    /\ pc = "loop"
    /\ idx = 3
    /\ NamesOf(doc.categories) = << <<"M", "i", "x">> >>
    /\ NamesOf(doc.functions) = << <<"b">> >>

\* C4: when the page has no version in its title the run is aborted at once:
\* no fragment is taken, no document is produced, no file is touched, and the
\* failure is reported by the handler of line 184.
C4_NoVersionAborts ==
    [][(pc = "fetched" /\ SubSeq(data, 1, Len(UnversionedTitle)) = UnversionedTitle)
          => /\ pc' = "done"
             /\ error' = "version"
             /\ console' = "Error while scraping"
             /\ idx' = 0
             /\ doc' = EmptyDoc
             /\ UNCHANGED fileVars]_vars

C4_Witness ==
    /\ pc = "done"
    /\ error = "version"
    /\ console = "Error while scraping"
    /\ ~versionFile.exists

\* C7 as stated: the entries of every category of the document are in strict
\* lexicographic order, each entry strictly less than the one following it.
C7_StrictlyOrdered ==
    \A i \in 1..Len(doc.categories) :
        \A j \in 1..(Len(doc.categories[i].entries) - 1) :
            LexLess(doc.categories[i].entries[j], doc.categories[i].entries[j + 1])

\* C7 amended: the entries of every category of the document are in
\* lexicographic order, each entry less than or equal to the one following
\* it; a target linked twice is kept twice.
C7_Ordered ==
    \A i \in 1..Len(doc.categories) :
        \A j \in 1..(Len(doc.categories[i].entries) - 1) :
            \/ LexLess(doc.categories[i].entries[j], doc.categories[i].entries[j + 1])
            \/ doc.categories[i].entries[j] = doc.categories[i].entries[j + 1]

C7_Witness ==
    \E i \in 1..Len(doc.categories) :
        /\ doc.categories[i].name = <<"C", "a", "t">>
        /\ doc.categories[i].entries = << <<"a">>, <<"b">> >>

\* C9: outputData decides by comparing the stored version with the
\* document's: when they are equal the process exits with code 1 and no file
\* is touched; otherwise, and always when there is no version file (which
\* reads as "", never a version of line 124), it goes on to the writes.  Only
\* this exit has code 1.
C9_WriteDecision ==
    /\ [](exitCode = 1 => console = "Up to date")
    /\ [][pc = "read" =>
            IF (IF versionFile.exists THEN versionFile.content ELSE <<>>) = doc.version
            THEN /\ versionFile.exists
                 /\ pc' = "done" /\ exitCode' = 1 /\ console' = "Up to date"
                 /\ UNCHANGED fileVars
            ELSE /\ pc' \in {"append", "writeVersion"}
                 /\ exitCode' = -1
                 /\ UNCHANGED fileVars]_vars

C9_Witness ==
    /\ pc = "done"
    /\ exitCode = 1
    /\ versionFile.exists
    /\ jsonFile.exists

\* C10: when a process has ended, the version file is never ahead of the
\* JSON file: if the version file holds v, the JSON file exists and holds
\* the document of version v.
C10_VersionNeverAhead ==
    (pc = "done" /\ versionFile.exists) =>
        jsonFile.exists /\ jsonFile.content.version = versionFile.content

\* C1: parseCategory and parseFunction return a record or no result for
\* every fragment; neither raises an error.
C1_ParsersNeverRaise ==
    called = "parsers" =>
        result.category.tag # "throw" /\ result.function.tag # "throw"

=============================================================================
